---- MODULE Spec2Model ----
(***************************************************************************)
(* Model of RiskAdjustment.py: the HCC resolver generate_hccs, the         *)
(* crosswalk formatter format_crosswaks and the hierarchy rule extractor   *)
(* extract_hierachy_rules.  DataFrames are modelled by their index, their  *)
(* columns and their cells; a cell of the recipient x CC matrix is one of  *)
(* "True", "False" and "NaN" (the filler pandas gives a column that a      *)
(* .loc assignment creates).                                               *)
(***************************************************************************)
EXTENDS Integers, Sequences, FiniteSets, TLC

VARIABLES
    pc,           \* position of the running call
    version,      \* generate_hccs argument: the scheme version
    Crosswalks,   \* the Crosswalks/ directory: a sequence of csv files
    rules_csv,    \* ConditionCategory/<version>_rules.csv: ordered rows
    labels_csv,   \* ConditionCategory/<version>_labels.csv: the cc column
    df,           \* generate_hccs argument: the diagnosis records
    dfColumns,    \* the column names of the caller's frame df
    df_map,       \* local: the concatenated crosswalk
    df_hier,      \* local: the rule table read from rules_csv
    df_list,      \* local: the cc column read from labels_csv
    merged,       \* local: the recipient x CC matrix
    k,            \* local: position of df_hier.iterrows()
    fpc,          \* format_crosswaks: position of the running call
    icd9_list,    \* format_crosswaks argument: raw ICD-9 files
    icd10_list,   \* format_crosswaks argument: raw ICD-10 files
    fi,           \* format_crosswaks: position in the list being read
    df_extra,     \* format_crosswaks local: the supplemental rows
    out_csv,      \* the csv files format_crosswaks has written, by name
    hpc,          \* extract_hierachy_rules: position of the running call
    version_list, \* extract_hierachy_rules argument: raw logic files
    hi,           \* extract_hierachy_rules: position in version_list
    rules_out     \* the rule csv files written, by scheme version

resolverVars == <<pc, version, Crosswalks, rules_csv, labels_csv, df, dfColumns,
                  df_map, df_hier, df_list, merged, k>>
formatVars == <<fpc, icd9_list, icd10_list, fi, df_extra, out_csv>>
extractVars == <<hpc, version_list, hi, rules_out>>
vars == <<resolverVars, formatVars, extractVars>>

(***************************************************************************)
(* Bounds and input domains.                                               *)
(***************************************************************************)
MaxRules == 2
MaxRecords == 2
MaxFiles == 2

Recipients == {"R1", "R2"}
Systems == {9, 10}
Dates == {20161231, 20170101}
JoinCodes == {"E119", "I10"}
Codes == JoinCodes \cup {"40403"}
CCIds == {1, 2, 3}

SeqsUpTo(S, n) == UNION {[1..m -> S] : m \in 0..n}

RECURSIVE SetsUpTo(_, _)
SetsUpTo(S, n) ==
    IF n = 0 THEN {{}}
    ELSE LET P == SetsUpTo(S, n - 1) IN P \cup {x \cup {e} : x \in P, e \in S}

InputColumns == {"recip_id", "diag_code", "version", "claim_date"}

(***************************************************************************)
(* generate_hccs, lines 23-49: load, join, pivot.                          *)
(***************************************************************************)
\* claim_date.dt.year: the calendar year of a yyyymmdd date
YearOf(date) == date \div 10000

\* [file for file in os.listdir('Crosswalks') if version in file]
CrosswalkList(dir, v) == SelectSeq(dir, LAMBDA file : file.ver = v)

RECURSIVE Concat(_)
\* pd.concat(lst): the rows of the files one after the other
Concat(files) ==
    IF files = <<>> THEN <<>> ELSE Head(files).rows \o Concat(Tail(files))

\* faulty variant: a join on ['diag_code', 'year'] only
MatchesNoVersion(rec, row) ==
    /\ rec.diag_code = row.diag_code
    /\ YearOf(rec.claim_date) = row.year

\* the join condition of merge(on=['diag_code', 'year', 'version'])
Matches(rec, row) ==
    /\ rec.diag_code = row.diag_code
    /\ YearOf(rec.claim_date) = row.year
    /\ rec.version = row.version

\* df.merge(df_map, how='left'): one row per (record, matching crosswalk row),
\* and one row with a null cc (position 0) for a record with no match
LeftMerge(d, m) ==
    {p \in d \X (DOMAIN m) : Matches(p[1], m[p[2]])}
    \cup {<<rec, 0>> : rec \in {x \in d : \A i \in DOMAIN m : ~Matches(x, m[i])}}

\* merged[merged.cc.notnull()]
NotNullCC(j) == {p \in j : p[2] # 0}

\* groupby(['recip_id', 'cc']).size().unstack(fill_value=0)
Unstack(j, m) ==
    LET idx == {p[1].recip_id : p \in j}
        cols == {m[p[2]].cc : p \in j}
    IN [index |-> idx, columns |-> cols,
        val |-> [r \in idx |-> [c \in cols |->
                   Cardinality({p \in j : p[1].recip_id = r /\ m[p[2]].cc = c})]]]

\* .reindex(df_list.cc, axis=1, fill_value=0)
Reindex(f, cols, fill) ==
    [index |-> f.index, columns |-> cols,
     val |-> [r \in f.index |-> [c \in cols |->
                IF c \in f.columns THEN f.val[r][c] ELSE fill]]]

\* .astype(bool)
AsTypeBool(f) ==
    [index |-> f.index, columns |-> f.columns,
     val |-> [r \in f.index |-> [c \in f.columns |->
                IF f.val[r][c] # 0 THEN "True" ELSE "False"]]]

\* lines 39-49: the pre-cascade matrix
Pivot(d, m, labels) ==
    AsTypeBool(Reindex(Unstack(NotNullCC(LeftMerge(d, m)), m), labels, 0))

EmptyFrame == [index |-> {}, columns |-> {}, val |-> <<>>]

\* a local name no assignment has bound yet
Unbound == [bound |-> FALSE, rows |-> <<>>]
Bound(rows) == [bound |-> TRUE, rows |-> rows]

(***************************************************************************)
(* generate_hccs, lines 53-54: the cascade.                                *)
(***************************************************************************)
\* merged[row.cc] raises KeyError when row.cc is no column; a .loc assignment
\* that would create a column in a frame with no rows raises ValueError
RuleRaises(m, rule) ==
    \/ rule.cc \notin m.columns
    \/ rule.to_zero \notin m.columns /\ m.index = {}

\* faulty variant: the rule fires for every row, whatever its trigger
MaskAll(m, rule) == m.index

\* merged[row.cc] == True: the rows the rule fires for
Mask(m, rule) == {r \in m.index : m.val[r][rule.cc] = "True"}

\* faulty variant: the assignment writes True
AssignedTrue == "True"

\* the value line 54 assigns
Assigned == "False"

\* faulty variant: the suppressed cell is toggled instead of cleared
ApplyRuleToggle(m, rule) ==
    LET cols == m.columns \cup {rule.to_zero}
    IN [index |-> m.index, columns |-> cols,
        val |-> [r \in m.index |-> [c \in cols |->
                   IF c = rule.to_zero /\ r \in Mask(m, rule)
                   THEN (IF c \in m.columns /\ m.val[r][c] = "False"
                         THEN "True" ELSE "False")
                   ELSE IF c \in m.columns THEN m.val[r][c]
                   ELSE "NaN"]]]

\* merged.loc[merged[row.cc] == True, row.to_zero] = False
ApplyRule(m, rule) ==
    LET cols == m.columns \cup {rule.to_zero}
    IN [index |-> m.index, columns |-> cols,
        val |-> [r \in m.index |-> [c \in cols |->
                   IF c = rule.to_zero /\ r \in Mask(m, rule) THEN Assigned
                   ELSE IF c \in m.columns THEN m.val[r][c]
                   ELSE "NaN"]]]

RECURSIVE Cascade(_, _)
\* for index, row in df_hier.iterrows(): ...   (error: an exception ended it)
Cascade(m, rules) ==
    IF rules = <<>> THEN [error |-> FALSE, frame |-> m]
    ELSE IF RuleRaises(m, Head(rules)) THEN [error |-> TRUE, frame |-> m]
    ELSE Cascade(ApplyRule(m, Head(rules)), Tail(rules))

(***************************************************************************)
(* Actions of generate_hccs.                                               *)
(***************************************************************************)
\* lines 23-33: pd.concat of an empty list raises ValueError
LoadTables ==
    /\ pc = "call"
    /\ LET crosswalk_list == CrosswalkList(Crosswalks, version)
       IN IF crosswalk_list = <<>>
          THEN /\ pc' = "failed"
               /\ UNCHANGED <<df_map, df_hier, df_list>>
          ELSE /\ pc' = "loaded"
               /\ df_map' = Concat(crosswalk_list)
               /\ df_hier' = rules_csv
               /\ df_list' = labels_csv
    /\ UNCHANGED <<version, Crosswalks, rules_csv, labels_csv, df, dfColumns,
                   merged, k>>
    /\ UNCHANGED <<formatVars, extractVars>>

\* lines 37-49: df['year'] = ... writes the caller's frame
JoinPivot ==
    /\ pc = "loaded"
    /\ dfColumns' = dfColumns \cup {"year"}
    /\ merged' = Pivot(df, df_map, df_list)
    /\ k' = 1
    /\ pc' = "cascade"
    /\ UNCHANGED <<version, Crosswalks, rules_csv, labels_csv, df, df_map,
                   df_hier, df_list>>
    /\ UNCHANGED <<formatVars, extractVars>>

\* lines 53-54: one iteration of the loop over df_hier
ApplyNextRule ==
    /\ pc = "cascade"
    /\ k <= Len(df_hier)
    /\ IF RuleRaises(merged, df_hier[k])
       THEN /\ pc' = "failed"
            /\ UNCHANGED <<merged, k>>
       ELSE /\ merged' = ApplyRule(merged, df_hier[k])
            /\ k' = k + 1
            /\ pc' = pc
    /\ UNCHANGED <<version, Crosswalks, rules_csv, labels_csv, df, dfColumns,
                   df_map, df_hier, df_list>>
    /\ UNCHANGED <<formatVars, extractVars>>

\* line 56
Return ==
    /\ pc = "cascade"
    /\ k > Len(df_hier)
    /\ pc' = "returned"
    /\ UNCHANGED <<version, Crosswalks, rules_csv, labels_csv, df, dfColumns,
                   df_map, df_hier, df_list, merged, k>>
    /\ UNCHANGED <<formatVars, extractVars>>

(***************************************************************************)
(* Inputs.                                                                 *)
(***************************************************************************)
\* a crosswalk row with the columns the merge of line 39 joins on (the files
\* format_crosswaks writes name the code column 'icd')
MapRow(code, y, sys, cc) ==
    [diag_code |-> code, year |-> y, version |-> sys, cc |-> cc]

\* crosswalk csv files a Crosswalks/ directory may hold
CrosswalkFiles ==
    { [ver |-> "v22", rows |-> <<MapRow("E119", 2016, 10, 1)>>],
      [ver |-> "v22", rows |-> <<MapRow("E119", 2016, 10, 2),
                                 MapRow("I10", 2017, 9, 1)>>],
      [ver |-> "v22", rows |-> <<MapRow("I10", 2016, 9, 3)>>],
      [ver |-> "v21", rows |-> <<MapRow("I10", 2016, 9, 2)>>] }

\* one code per CC, all of one year and coding system
CascadeDir ==
    << [ver |-> "v22", rows |-> <<MapRow("E119", 2016, 10, 1),
                                  MapRow("I10", 2016, 10, 2),
                                  MapRow("40403", 2016, 10, 3)>>] >>

Records(codes, systems, dates) ==
    [recip_id : Recipients, diag_code : codes, version : systems,
     claim_date : dates]

Rules == [cc : CCIds, to_zero : CCIds]

CrosswalkDirs == SeqsUpTo(CrosswalkFiles, MaxFiles)
JoinRecordSets == SetsUpTo(Records(JoinCodes, Systems, Dates), MaxRecords)
CascadeRecordSets == SetsUpTo(Records(Codes, {10}, {20161231}), MaxRecords + 1)
RuleLists == SeqsUpTo(Rules, MaxRules)

\* no call of format_crosswaks is under way
FormatIdle ==
    /\ fpc = "idle"
    /\ icd9_list = <<>>
    /\ icd10_list = <<>>
    /\ fi = 0
    /\ df_extra = Unbound
    /\ out_csv = {}

\* no call of extract_hierachy_rules is under way
ExtractIdle ==
    /\ hpc = "idle"
    /\ version_list = <<>>
    /\ hi = 0
    /\ rules_out = {}

Locals ==
    /\ pc = "call"
    /\ dfColumns = InputColumns
    /\ df_map = <<>>
    /\ df_hier = <<>>
    /\ df_list = {}
    /\ merged = EmptyFrame
    /\ k = 0
    /\ FormatIdle
    /\ ExtractIdle

\* any records against any directory; the rule table is empty or one rule
InitJoin ==
    /\ version = "v22"
    /\ Crosswalks \in CrosswalkDirs
    /\ labels_csv \in {{}, {1, 2}}
    /\ rules_csv \in {<<>>, <<[cc |-> 1, to_zero |-> 2]>>}
    /\ df \in JoinRecordSets
    /\ Locals

\* any rule list against any matrix the one-code-per-CC directory produces
InitCascade ==
    /\ version = "v22"
    /\ Crosswalks = CascadeDir
    /\ labels_csv \in {{1, 2}, CCIds}
    /\ rules_csv \in RuleLists
    /\ df \in CascadeRecordSets
    /\ Locals

Init == InitJoin \/ InitCascade

Next ==
    \/ LoadTables
    \/ JoinPivot
    \/ ApplyNextRule
    \/ Return

Spec == Init /\ [][Next]_vars

(***************************************************************************)
(* Properties of generate_hccs.                                            *)
(***************************************************************************)
\* the call has built the matrix (k is set by the join)
AfterJoin == pc \in {"cascade", "returned"} \/ (pc = "failed" /\ k >= 1)

\* the matrix of lines 39-49, before any rule is applied
PreCascade == Pivot(df, df_map, df_list)

\* C1: the returned matrix has exactly the cc columns of the label table,
\* whatever the rule table names.
ColumnUniverse == pc = "returned" => merged.columns = labels_csv

\* C2: a cell of the CC universe that is False before the cascade is False
\* after every prefix of the rule list, one rule application changes such a
\* cell only from True to False, and no cell of any other column is True.
MonotoneSuppression ==
    [][pc = "cascade" =>
        /\ \A r \in merged.index : \A c \in df_list :
              PreCascade.val[r][c] = "False" =>
                  merged.val[r][c] = "False" /\ merged'.val[r][c] = "False"
        /\ \A r \in merged.index : \A c \in df_list :
              merged'.val[r][c] # merged.val[r][c] =>
                  merged.val[r][c] = "True" /\ merged'.val[r][c] = "False"
        /\ \A r \in merged'.index : \A c \in merged'.columns \ df_list :
              merged'.val[r][c] # "True"]_vars

\* a rule fired and cleared a cell, next to a cell that was False all along
MonotoneWitness ==
    /\ pc = "returned"
    /\ \E r \in merged.index : \E c, d \in df_list :
         /\ PreCascade.val[r][c] = "True" /\ merged.val[r][c] = "False"
         /\ PreCascade.val[r][d] = "False" /\ merged.val[r][d] = "False"

\* the matrix the loop holds is the fold of the rules before position k
SinglePass ==
    pc = "cascade" =>
        Cascade(PreCascade, SubSeq(df_hier, 1, k - 1))
            = [error |-> FALSE, frame |-> merged]

\* rule list <<A, B>> where A suppresses B's trigger and recipient r has A's
\* trigger, B's trigger and B's suppressed CC
Fixture(r) ==
    /\ Len(df_hier) = 2
    /\ df_hier[1].to_zero = df_hier[2].cc
    /\ r \in PreCascade.index
    /\ {df_hier[1].cc, df_hier[2].cc, df_hier[2].to_zero} \subseteq df_list
    /\ PreCascade.val[r][df_hier[1].cc] = "True"
    /\ PreCascade.val[r][df_hier[2].cc] = "True"
    /\ PreCascade.val[r][df_hier[2].to_zero] = "True"

Reversed == <<df_hier[2], df_hier[1]>>

\* C3 as stated: one ordered pass, and on every such fixture the reversed
\* list gives another final matrix.
OrderSensitiveAsStated ==
    /\ SinglePass
    /\ pc = "returned" /\ (\E r \in Recipients : Fixture(r)) =>
           Cascade(PreCascade, Reversed).frame # merged

\* C3 amended: one ordered pass, and on every such fixture where B does not
\* suppress its own trigger the reversed list gives another final matrix.
OrderSensitive ==
    /\ SinglePass
    /\ pc = "returned" /\ (\E r \in Recipients : Fixture(r))
          /\ df_hier[2].to_zero # df_hier[2].cc =>
           Cascade(PreCascade, Reversed).frame # merged

\* the fixture with three CCs: B's trigger is cleared, B's suppressed CC stays
OrderWitness ==
    /\ pc = "returned"
    /\ \E r \in Recipients :
         /\ Fixture(r)
         /\ Cardinality({df_hier[1].cc, df_hier[2].cc, df_hier[2].to_zero}) = 3
         /\ merged.val[r][df_hier[2].cc] = "False"
         /\ merged.val[r][df_hier[2].to_zero] = "True"

\* C4: a second pass of the whole rule list over the returned matrix changes
\* no cell.
Idempotent ==
    pc = "returned" => Cascade(merged, df_hier) = [error |-> FALSE, frame |-> merged]

\* a returned matrix the first pass changed, by a chain or a self-suppression
IdempotentWitness ==
    /\ pc = "returned"
    /\ merged # PreCascade
    /\ Len(df_hier) = 2
    /\ \/ df_hier[2].to_zero = df_hier[1].cc
       \/ df_hier[1].to_zero = df_hier[1].cc

\* C5: before the cascade a cell is True exactly when the recipient has a
\* record whose (code, year of claim_date, coding system) has a crosswalk row
\* with that cc; the columns are the label table's.
PivotExact ==
    pc = "cascade" /\ k = 1 =>
        /\ merged.columns = df_list
        /\ \A r \in Recipients : \A c \in df_list :
             (r \in merged.index /\ merged.val[r][c] = "True") <=>
                 \E rec \in df : \E i \in DOMAIN df_map :
                     /\ rec.recip_id = r
                     /\ df_map[i].diag_code = rec.diag_code
                     /\ df_map[i].year = rec.claim_date \div 10000
                     /\ df_map[i].version = rec.version
                     /\ df_map[i].cc = c
        /\ \A r \in merged.index : \A c \in df_list :
             merged.val[r][c] \in {"True", "False"}

\* a recipient with a record matched twice and a record matched by no row
PivotWitness ==
    /\ pc = "cascade" /\ k = 1
    /\ \E rec, un \in df :
         /\ rec.recip_id = un.recip_id
         /\ Cardinality({i \in DOMAIN df_map : Matches(rec, df_map[i])}) = 2
         /\ \A i \in DOMAIN df_map : ~Matches(un, df_map[i])
         /\ \E c \in df_list : merged.val[rec.recip_id][c] = "True"
         /\ \E c \in df_list : merged.val[rec.recip_id][c] = "False"

\* C6: no matrix is returned when the label table is empty or no crosswalk
\* file matches the version.
FailFast ==
    pc = "returned" =>
        labels_csv # {} /\ CrosswalkList(Crosswalks, version) # <<>>

\* two crosswalk rows with one key and two cc ids
Inconsistent(m) ==
    \E i, j \in DOMAIN m :
        /\ m[i].diag_code = m[j].diag_code
        /\ m[i].year = m[j].year
        /\ m[i].version = m[j].version
        /\ m[i].cc # m[j].cc

\* C7: no matrix is returned when the unioned crosswalk holds one key with
\* two cc ids.
InconsistentKeySurfaced ==
    pc = "returned" => ~Inconsistent(Concat(CrosswalkList(Crosswalks, version)))

\* C8: when the call has ended the caller's frame has the columns it came
\* with.
InputUntouched == pc \in {"returned", "failed"} => dfColumns = InputColumns

(***************************************************************************)
(* format_crosswaks, lines 170-237.  A raw file is its path parts (year,   *)
(* cc_version) and its lines, each line the tokens between whitespace.     *)
(* The cc of a supplemental row is written as the text to_csv gives it.    *)
(***************************************************************************)
MaxIcd9 == 2
MaxIcd10 == 1

\* the year the v21 and v22 supplements stop at (lines 200 and 214)
CutoffYear == 2015

\* item[0] and item[1] of a split line; a line of one token has no item[1]
Malformed(raw) == \E i \in DOMAIN raw : Len(raw[i]) < 2

\* lines 180-189 and 231-236: icd, cc, version and year of every line
ParseFile(raw, sys, year) ==
    [i \in DOMAIN raw |->
        [icd |-> raw[i][1], cc |-> raw[i][2], version |-> sys, year |-> year]]

\* product(year, icd, version, cc) over one-element year, version and cc
ExtraRows(year, icds, cc) ==
    [i \in DOMAIN icds |->
        [icd |-> icds[i], cc |-> cc, version |-> 9, year |-> year]]

\* lines 193-198
V12Extra(year) == ExtraRows(year, <<"40403", "40413", "40493">>, "80")

\* lines 201-212
V21Extra(year) ==
    ExtraRows(year, <<"3572", "36202">>, "18")
    \o ExtraRows(year, <<"40401", "40403", "40411", "40413", "40491", "40493">>,
                 "85")

\* lines 215-220
V22Extra(year) ==
    ExtraRows(year, <<"36202">>, "18")
    \o ExtraRows(year, <<"40403", "40413", "40493">>, "85")

\* lines 192-220: df_extra after the branches; no branch leaves it as it was
ExtraAfterBranches(file, extra) ==
    IF file.cc_version = "v12" THEN Bound(V12Extra(file.year))
    ELSE IF file.cc_version = "v21" /\ file.year <= CutoffYear
         THEN Bound(V21Extra(file.year))
    ELSE IF file.cc_version = "v22" /\ file.year <= CutoffYear
         THEN Bound(V22Extra(file.year))
    ELSE extra

\* df.to_csv('Crosswalks/'+year+'_'+cc_version+'_icd9.csv'): replaces the file
WriteCsv(files, name, rows) ==
    {f \in files : f.name # name} \cup {[name |-> name, rows |-> rows]}

\* lines 176-225: one ICD-9 file; reading df_extra unbound raises
FormatIcd9 ==
    /\ fpc = "icd9"
    /\ fi <= Len(icd9_list)
    /\ LET file == icd9_list[fi]
           extra == ExtraAfterBranches(file, df_extra)
       IN IF Malformed(file.raw)
          THEN /\ fpc' = "failed"
               /\ UNCHANGED <<fi, df_extra, out_csv>>
          ELSE IF ~extra.bound
          THEN /\ fpc' = "failed"
               /\ UNCHANGED <<fi, df_extra, out_csv>>
          ELSE /\ df_extra' = extra
               /\ out_csv' = WriteCsv(out_csv,
                                 <<file.year, file.cc_version, "icd9">>,
                                 ParseFile(file.raw, 9, file.year) \o extra.rows)
               /\ fi' = fi + 1
               /\ fpc' = fpc
    /\ UNCHANGED <<icd9_list, icd10_list>>
    /\ UNCHANGED <<resolverVars, extractVars>>

\* line 229: the first loop is over, the second starts
StartIcd10 ==
    /\ fpc = "icd9"
    /\ fi > Len(icd9_list)
    /\ fpc' = "icd10"
    /\ fi' = 1
    /\ UNCHANGED <<icd9_list, icd10_list, df_extra, out_csv>>
    /\ UNCHANGED <<resolverVars, extractVars>>

\* lines 229-237: one ICD-10 file
FormatIcd10 ==
    /\ fpc = "icd10"
    /\ fi <= Len(icd10_list)
    /\ LET file == icd10_list[fi]
       IN IF Malformed(file.raw)
          THEN /\ fpc' = "failed"
               /\ UNCHANGED <<fi, out_csv>>
          ELSE /\ out_csv' = WriteCsv(out_csv,
                                 <<file.year, file.cc_version, "icd10">>,
                                 ParseFile(file.raw, 10, file.year))
               /\ fi' = fi + 1
               /\ fpc' = fpc
    /\ UNCHANGED <<icd9_list, icd10_list, df_extra>>
    /\ UNCHANGED <<resolverVars, extractVars>>

\* the second loop is over
FormatReturn ==
    /\ fpc = "icd10"
    /\ fi > Len(icd10_list)
    /\ fpc' = "done"
    /\ UNCHANGED <<icd9_list, icd10_list, fi, df_extra, out_csv>>
    /\ UNCHANGED <<resolverVars, extractVars>>

RawContents ==
    { << <<"4010", "91">> >>,
      << <<"25000", "19", "D">>, <<"4010", "91">> >>,
      << <<"4010">> >> }

Icd9Files == [year : {2015, 2016}, cc_version : {"v12", "v21", "v22"},
              raw : RawContents]
Icd10Files == [year : {2016, 2017}, cc_version : {"v21", "v22"},
               raw : RawContents]

\* no call of generate_hccs is under way
ResolverIdle ==
    /\ pc = "idle"
    /\ version = "v22"
    /\ Crosswalks = <<>>
    /\ rules_csv = <<>>
    /\ labels_csv = {}
    /\ df = {}
    /\ dfColumns = InputColumns
    /\ df_map = <<>>
    /\ df_hier = <<>>
    /\ df_list = {}
    /\ merged = EmptyFrame
    /\ k = 0

InitFormat ==
    /\ fpc = "icd9"
    /\ icd9_list \in SeqsUpTo(Icd9Files, MaxIcd9)
    /\ icd10_list \in SeqsUpTo(Icd10Files, MaxIcd10)
    /\ fi = 1
    /\ df_extra = Unbound
    /\ out_csv = {}
    /\ ResolverIdle
    /\ ExtractIdle

NextFormat ==
    \/ FormatIcd9
    \/ StartIcd10
    \/ FormatIcd10
    \/ FormatReturn

SpecFormat == InitFormat /\ [][NextFormat]_vars

\* the supplement the scheme version and year call for
Supplement(v, year) ==
    IF v = "v12" THEN V12Extra(year)
    ELSE IF year > CutoffYear THEN <<>>
    ELSE IF v = "v21" THEN V21Extra(year)
    ELSE V22Extra(year)

Range(q) == {q[i] : i \in DOMAIN q}

\* the ICD-9 files the first loop has finished
Icd9Done ==
    {icd9_list[i] : i \in 1..(IF fpc = "icd9" THEN fi - 1 ELSE Len(icd9_list))}

\* C9: every ICD-9 table holds its file's parsed rows and exactly the
\* supplement of its version and year, whatever was processed before; a call
\* fails only on a line with no second token; ICD-10 tables hold parsed rows
\* only.
SupplementScoped ==
    /\ fpc = "failed" =>
          \E file \in Range(icd9_list) \cup Range(icd10_list) : Malformed(file.raw)
    /\ \A f \in out_csv :
          IF f.name[3] = "icd9"
          THEN \E file \in Icd9Done :
                  /\ file.year = f.name[1] /\ file.cc_version = f.name[2]
                  /\ Range(f.rows) =
                        Range(ParseFile(file.raw, 9, file.year))
                        \cup Range(Supplement(file.cc_version, file.year))
          ELSE \E i \in DOMAIN icd10_list :
                  /\ icd10_list[i].year = f.name[1]
                  /\ icd10_list[i].cc_version = f.name[2]
                  /\ Range(f.rows) =
                        Range(ParseFile(icd10_list[i].raw, 10, f.name[1]))

(***************************************************************************)
(* extract_hierachy_rules, lines 71-109.  A line of the raw text is a      *)
(* sequence of tokens: the anchors and markers of the two grammars, single *)
(* digits, ",", " ", "<" and "x" (any other character).                    *)
(***************************************************************************)
MaxLines == 2
MaxArtifacts == 1

\* [0-9] and \d
Digits == {"7", "8", "9"}

\* the most digits one id of a suppression list takes: [\d]{1,3}
IdDigits == 3

\* lines 76-98: the split pattern and the two extract patterns of a version;
\* only the later grammar lets a space stand before a comma of the list
Grammar(cc_version) ==
    IF cc_version = "v12"
    THEN [anchor |-> "if h", trigger |-> "cc", list |-> "i=",
          spaceBeforeComma |-> FALSE]
    ELSE [anchor |-> "%SET0(", trigger |-> "CC=", list |-> "%STR(",
          spaceBeforeComma |-> TRUE]

\* a missing value (None or NaN) and a string value of a column
Null == [null |-> TRUE, s |-> <<>>]
Str(s) == [null |-> FALSE, s |-> s]

\* position of the first tok in s, 0 when there is none
FirstIndex(s, tok) ==
    IF \E i \in DOMAIN s : s[i] = tok
    THEN CHOOSE i \in DOMAIN s : s[i] = tok /\ \A j \in 1..(i - 1) : s[j] # tok
    ELSE 0

\* str.split(anchor, 1): one piece without the anchor, else two
SplitAnchor(line, g) ==
    LET i == FirstIndex(line, g.anchor)
    IN IF i = 0 THEN <<line>>
       ELSE <<SubSeq(line, 1, i - 1), SubSeq(line, i + 1, Len(line))>>

\* the 'logic' column: the DataFrame pads a one-piece row with None
Logic(line, g) ==
    LET pieces == SplitAnchor(line, g)
    IN IF Len(pieces) = 2 THEN Str(pieces[2]) ELSE Null

RECURSIVE DigitRun(_, _, _)
\* how many digits stand at s[p..], at most max
DigitRun(s, p, max) ==
    IF max = 0 \/ p > Len(s) THEN 0
    ELSE IF s[p] \in Digits THEN 1 + DigitRun(s, p + 1, max - 1)
    ELSE 0

\* str.extract('cc(<?[0-9]*)') or 'CC=(<?[0-9]*)': the group after the first
\* marker; it matches the empty string when no digit follows
Condition(logic, g) ==
    IF logic.null THEN Null
    ELSE LET i == FirstIndex(logic.s, g.trigger)
             lt == IF i > 0 /\ i < Len(logic.s) /\ logic.s[i + 1] = "<"
                   THEN 1 ELSE 0
             n == DigitRun(logic.s, i + 1 + lt, Len(logic.s))
         IN IF i = 0 THEN Null
            ELSE Str(SubSeq(logic.s, i + 1, i + lt + n))

At(s, p) == IF p \in DOMAIN s THEN s[p] ELSE "end"

RECURSIVE ListEnd(_, _, _)
\* the last position of the match of (,\s?[\d]{1,3})* or (\s?,\s?[\d]{1,3})*
\* that starts after position e
ListEnd(s, e, g) ==
    LET comma == IF g.spaceBeforeComma /\ At(s, e + 1) = " "
                 THEN e + 2 ELSE e + 1
        first == IF At(s, comma + 1) = " " THEN comma + 2 ELSE comma + 1
        n == DigitRun(s, first, IdDigits)
    IN IF At(s, comma) = "," /\ n > 0 THEN ListEnd(s, first + n - 1, g)
       ELSE e

\* str.extract('(?<=i=)([\d]{1,3}(,\s?[\d]{1,3})*)')[0] or the %STR( form:
\* the match at the first marker that a digit follows
Zeros(logic, g) ==
    IF logic.null THEN Null
    ELSE LET s == logic.s
             starts == {p \in DOMAIN s : p > 1 /\ s[p - 1] = g.list
                                          /\ s[p] \in Digits}
         IN IF starts = {} THEN Null
            ELSE LET p == CHOOSE q \in starts : \A o \in starts : q <= o
                 IN Str(SubSeq(s, p,
                           ListEnd(s, p + DigitRun(s, p, IdDigits) - 1, g)))

RECURSIVE SplitComma(_)
\* row['zeros'].split(','): the pieces between the commas, spaces kept
SplitComma(s) ==
    LET i == FirstIndex(s, ",")
    IN IF i = 0 THEN <<s>>
       ELSE <<SubSeq(s, 1, i - 1)>> \o SplitComma(SubSeq(s, i + 1, Len(s)))

\* lines 102-106 for one line: pd.Series(condition, zeros.split(',')) of a
\* line whose condition and zeros are both not null
LineRules(line, g) ==
    LET logic == Logic(line, g)
        condition == Condition(logic, g)
        zeros == Zeros(logic, g)
    IN IF condition.null \/ zeros.null THEN <<>>
       ELSE LET ids == SplitComma(zeros.s)
            IN [i \in DOMAIN ids |-> [to_zero |-> ids[i], cc |-> condition.s]]

\* a line the filter of line 102 keeps
Survives(line, g) ==
    ~Condition(Logic(line, g), g).null /\ ~Zeros(Logic(line, g), g).null

RECURSIVE Explode(_, _)
\* pd.concat([... for _, row in smalldf.iterrows()]): the rows in line order
Explode(text, g) ==
    IF text = <<>> THEN <<>>
    ELSE LineRules(Head(text), g) \o Explode(Tail(text), g)

\* the DataFrame of lines 78 and 90 needs a line with the anchor to have two
\* columns, and pd.concat needs a surviving line
ExtractRaises(text, g) ==
    \/ \A i \in DOMAIN text : FirstIndex(text[i], g.anchor) = 0
    \/ \A i \in DOMAIN text : ~Survives(text[i], g)

\* lines 72-109: one file of version_list
ExtractFile ==
    /\ hpc = "run"
    /\ hi <= Len(version_list)
    /\ LET file == version_list[hi]
           g == Grammar(file.cc_version)
       IN IF ExtractRaises(file.text, g)
          THEN /\ hpc' = "failed"
               /\ UNCHANGED <<hi, rules_out>>
          ELSE /\ rules_out' = WriteCsv(rules_out, file.cc_version,
                                        Explode(file.text, g))
               /\ hi' = hi + 1
               /\ hpc' = hpc
    /\ UNCHANGED version_list
    /\ UNCHANGED <<resolverVars, formatVars>>

\* the loop of line 71 is over
ExtractReturn ==
    /\ hpc = "run"
    /\ hi > Len(version_list)
    /\ hpc' = "done"
    /\ UNCHANGED <<version_list, hi, rules_out>>
    /\ UNCHANGED <<resolverVars, formatVars>>

AnchorParts == {<<>>, <<"x", "if h">>, <<"%SET0(">>}
TriggerParts ==
    {<<>>, <<"cc">>, <<"cc", "7">>, <<"cc", "<", "7">>, <<"CC=">>,
     <<"CC=", "7", "8">>}
ListParts ==
    {<<>>, <<"i=", "8">>, <<"i=", "8", ",", " ", "9">>,
     <<"i=", "9", " ", ",", "8">>, <<"%STR(", "8", " ", ",", " ", "9">>,
     <<"%STR(", "9", ",", "9", ",", "x">>, <<"%STR(", "8", "8", "8", "8">>,
     <<"%STR(", "x">>}

\* lines of a raw logic file: anchor, trigger fragment, list fragment
Lines ==
    {a \o t \o <<" ">> \o l :
        a \in AnchorParts, t \in TriggerParts, l \in ListParts}

Artifacts == [cc_version : {"v12", "v21", "v22"}, text : SeqsUpTo(Lines, MaxLines)]

InitExtract ==
    /\ hpc = "run"
    /\ version_list \in SeqsUpTo(Artifacts, MaxArtifacts) \ {<<>>}
    /\ hi = 1
    /\ rules_out = {}
    /\ ResolverIdle
    /\ FormatIdle

NextExtract ==
    \/ ExtractFile
    \/ ExtractReturn

SpecExtract == InitExtract /\ [][NextExtract]_vars

\* the rows the claim gives a line: none unless the trigger extraction and
\* the list extraction are both non-empty
ClaimedRules(line, g) ==
    LET logic == Logic(line, g)
        condition == Condition(logic, g)
        zeros == Zeros(logic, g)
    IN IF condition.null \/ condition.s = <<>> \/ zeros.null THEN <<>>
       ELSE LET ids == SplitComma(zeros.s)
            IN [i \in DOMAIN ids |-> [to_zero |-> ids[i], cc |-> condition.s]]

RECURSIVE ClaimedTable(_, _)
ClaimedTable(text, g) ==
    IF text = <<>> THEN <<>>
    ELSE ClaimedRules(Head(text), g) \o ClaimedTable(Tail(text), g)

\* C10: a written rule table is, in line order and list order, one row per
\* id of every line whose trigger and list extractions are both non-empty.
RulesAsClaimed ==
    \A f \in rules_out :
        \E i \in 1..(hi - 1) :
            /\ version_list[i].cc_version = f.name
            /\ f.rows = ClaimedTable(version_list[i].text,
                                     Grammar(f.name))

====
